---------------------------- MODULE Spec2Model ----------------------------
(***************************************************************************)
(* A model of FileBehaviors.WebFilesystemBehavior (the persistent backend) *)
(* and FileBehaviors.SyncFilesystemBehaviorImpl (the synced backend).      *)
(*                                                                         *)
(* One step of the model is one task of the event loop: the synchronous    *)
(* body of a call made by the element's owner, or one platform callback,   *)
(* each together with the promise reactions (microtasks) it triggers up to *)
(* the next platform request.  Every invocation of an operation is a       *)
(* record of proc: its operation, the platform request it waits for (pc),  *)
(* its locals, and the notification it fired.                              *)
(***************************************************************************)
EXTENDS Integers, Sequences, FiniteSets, TLC

(* ------------------------------ bounds -------------------------------- *)
\* invocations of operations over one run (all may be in flight together)
MaxCalls == 2
\* code units in a content string assigned by the owner
MaxLen == 1
\* tokens in a platform error message
MaxMsgLen == 2
\* requested quota, in bytes
MaxQuota == 1
\* assignments of filename and content by the owner over one run
MaxAssigns == 2

(* --------------------------- value domains ---------------------------- *)
\* JavaScript's undefined, for the attributes that have no default value
Undefined == "undefined"
\* the text 'error code: -107' looked for in a platform error message
Sentinel == "error code: -107"
\* any other non-empty piece of text of a platform error message
OtherText == "x"
DomainText == "You must be signed in to the Chrome to use syncable storage"

Procs == 1..MaxCalls

RECURSIVE SeqsUpTo(_, _)
SeqsUpTo(S, n) ==
    IF n = 0 THEN {<< >>}
    ELSE LET shorter == SeqsUpTo(S, n - 1)
         IN  shorter \cup {Append(s, x) : s \in {t \in shorter : Len(t) = n - 1}, x \in S}

\* messages a platform error can carry: pieces of text, the sentinel among them
Messages == SeqsUpTo({Sentinel, OtherText}, MaxMsgLen)

\* a value handed to a rejection handler or carried by a notification
Val(kind, val) == [kind |-> kind, val |-> val]
NoVal == Val("none", << >>)
ErrorObj(msg) == Val("Error", msg)
UndefinedReason == Val("undefined", << >>)
\* what the platform hands to an error callback, or leaves in chrome.runtime.lastError
PlatformErrors == {ErrorObj(m) : m \in Messages}
LastErrors == PlatformErrors \cup {UndefinedReason}
\* one representative platform error for the steps whose message is never inspected
SomeError == ErrorObj(<<OtherText>>)

\* String.prototype.indexOf(Sentinel), counted in pieces of text: -1 when absent.
\* Every piece of text is non-empty, so the piece index is > 0 exactly when the
\* character index is.
IndexOfSentinel(msg) ==
    IF \E i \in 1..Len(msg) : msg[i] = Sentinel
    THEN (CHOOSE i \in 1..Len(msg) :
             msg[i] = Sentinel /\ \A j \in 1..(i - 1) : msg[j] # Sentinel) - 1
    ELSE -1


(* ------------------------------- state -------------------------------- *)
VARIABLES
    backend,       \* "persistent" (WebFilesystemBehavior) or "sync" (SyncFilesystemBehavior)
    quota,         \* the quota attribute: bytes the owner asks for
    grantedQuota,  \* the grantedQuota attribute
    fileSystem,    \* the fileSystem attribute: NoFs, or the handle the platform gave
    filename,      \* the filename attribute
    content,       \* the content attribute
    auto,          \* the auto attribute
    files,         \* the platform's root directory: path -> [exists, data]
    proc,          \* the invocations of operations
    calls,         \* invocations started so far
    fsSets,        \* history: how often _setFileSystem ran
    gqSets,        \* history: how often _setGrantedQuota ran
    assigns        \* history: assignments of filename and content by the owner

vars == <<backend, quota, grantedQuota, fileSystem, filename, content, auto,
          files, proc, calls, fsSets, gqSets, assigns>>

\* fileSystem before any mount; a handle is named by the invocation that obtained it
NoFs == 0

\* names of children of the root; the path of an undefined filename is "undefined"
Paths == {Undefined, "f", "g"}
NoFile == [exists |-> FALSE, data |-> << >>]
Existing == {n \in Paths : files[n].exists}

\* an invocation that has not been made yet.  cached, reqs, trace, prior, tpath,
\* src and peers are history: whether fileSystem was set at the call, the
\* platform mount requests issued, the steps taken, the invocations that had
\* finished at the call, the path of the entry truncated, the content written,
\* and the writeFile() that had truncated and not yet begun to write when this
\* one began to write
Idle == [op |-> "none", pc |-> "idle", path |-> "", data |-> << >>, rem |-> {},
         saved |-> FALSE, step |-> 1, ev |-> "none", payload |-> NoVal,
         oks |-> 0, errs |-> 0, cached |-> FALSE, reqs |-> 0, trace |-> << >>,
         prior |-> {}, tpath |-> "", src |-> NoVal, peers |-> {}]

\* operations that begin with getFile()
GetFileOps == {"getFile", "readFile", "writeFile", "remove"}
\* pcs at which an invocation waits for the platform's answer to a mount request
MountPcs == {"quota", "fs"}

\* no callback handed to this.async() is waiting.  async() without a wait time
\* runs its callback at the end of the current task, before any other platform
\* callback; until then only the owner's listeners of the notifications run.
Settled == \A p \in Procs : proc[p].pc # "async"

(* --------------------------- notifications ---------------------------- *)
\* an invocation ends: its locals (the data read or to be written, the directory
\* reader) are gone, what it fired and its history stay
Finish(r) == [r EXCEPT !.pc = "done", !.data = << >>, !.rem = {}]

\* an invocation that ends without its notification
FireNothing(r, name, detail) == Finish(r)

\* this.fire(name, detail) as the last step of an invocation
FireOk(r, name, detail) ==
    [Finish(r) EXCEPT !.ev = name, !.payload = detail, !.oks = @ + 1]
FireError(r, detail) ==
    [Finish(r) EXCEPT !.ev = "error", !.payload = detail, !.errs = @ + 1]
\* the promise returned by getFile() to a direct caller settles
Resolve(r, value) == [Finish(r) EXCEPT !.ev = "resolved", !.payload = value]
Reject(r, reason) == [Finish(r) EXCEPT !.ev = "rejected", !.payload = reason]

(* ------------------------------ getFile ------------------------------- *)
\* the catch of getFile(): the synced backend rewrites the not-signed-in error
GetFileCatch(reason) ==
    IF backend = "sync"
    THEN IF reason.kind = "Error" /\ reason.val # << >> /\ IndexOfSentinel(reason.val) > 0
         THEN ErrorObj(<<DomainText>>)
         ELSE reason
    ELSE reason

\* the catch of list()
ListCatch(r, reason) ==
    IF backend = "sync"
    THEN IF reason.kind = "Error" /\ reason.val # << >> /\ IndexOfSentinel(reason.val) > 0
         THEN FireError(r, Val("string", <<DomainText>>))
         ELSE FireError(r, reason)
    ELSE FireError(r, reason)

\* a catch that fires nothing
OpCatchSilent(r, reason) == Finish(r)

\* the rejection of an operation's getFile() reaches the operation's own catch
OpCatch(r, reason) ==
    IF r.op = "getFile" THEN Reject(r, reason) ELSE FireError(r, reason)

(* ------------------------ the promise chains -------------------------- *)
\* a writeFile() that reacquires the handle before it truncates
WriteChainReopenFirst ==
    <<"getFile", "getFile", "_truncate", "_writeFileEntry", "file-write">>

\* a writeFile() that writes first and truncates afterwards
WriteChainWriteFirst ==
    <<"getFile", "_writeFileEntry", "getFile", "_truncate", "file-write">>

\* the steps writeFile() chains with then(), in order
WriteChain ==
    <<"getFile", "_truncate", "getFile", "_writeFileEntry", "file-write">>

\* the steps an operation chains with then(), in order
Chain(op) ==
    CASE op = "getFile" -> <<"getFile", "resolve">>
      [] op = "readFile" -> <<"getFile", "_readFileContents", "assign">>
      [] op = "writeFile" -> WriteChain
      [] op = "remove" -> <<"getFile", "remove">>
      [] OTHER -> <<"_requestFilesystem">>

CurrentStep(r) == Chain(r.op)[r.step]

(* ------------------------------- mount -------------------------------- *)
\* the reactions to a fulfilled _requestFilesystem(); fn is this.filename
AfterMountOk(r, fn) ==
    CASE r.op = "requestFilesystem" -> FireOk(r, "filesystem-ready", NoVal)
      [] r.op \in GetFileOps ->
            [r EXCEPT !.pc = "open", !.path = fn, !.trace = Append(@, "getFile")]
      [] r.op = "list" -> [r EXCEPT !.pc = "page", !.rem = Existing, !.data = << >>]
      [] r.op = "getUsageAndQuota" -> [r EXCEPT !.pc = "usage"]

\* the reactions to a rejected _requestFilesystem()
AfterMountFail(r0, reason) ==
    LET r == [r0 EXCEPT !.trace = Append(@, "mount-failed")]
    IN  CASE r.op = "requestFilesystem" -> FireError(r, reason)
          [] r.op \in GetFileOps -> OpCatch(r, GetFileCatch(reason))
          [] r.op = "list" -> ListCatch(r, reason)
          [] r.op = "getUsageAndQuota" -> FireError(r, reason)

\* the platform request a mount begins with: requestQuota, or the synced
\* backend's requestFileSystem
RequestMount(r) ==
    [r EXCEPT !.pc = IF backend = "persistent" THEN "quota" ELSE "fs", !.reqs = @ + 1]

\* a _requestFilesystem() that does not look at the cached fileSystem
RequestFilesystemUncached(r, fn) == RequestMount(r)

\* _requestFilesystem() of either backend, and what follows it in the same task
RequestFilesystemImpl(r, fn) ==
    IF fileSystem # NoFs THEN AfterMountOk(r, fn) ELSE RequestMount(r)

\* the current step of the chain begins; entry is the value the step before gave
Begin(r, fn) ==
    LET s == CurrentStep(r)
    IN  CASE s = "getFile" -> RequestFilesystemImpl(r, fn)
          [] s = "_truncate" -> [r EXCEPT !.pc = "crw", !.trace = Append(@, "_truncate")]
          [] s = "_writeFileEntry" ->
                [r EXCEPT !.pc = "crw", !.trace = Append(@, "_writeFileEntry")]
          [] s = "_readFileContents" -> [r EXCEPT !.pc = "file"]
          [] s = "remove" -> [r EXCEPT !.pc = "delete"]
          [] s = "resolve" -> Resolve(r, Val("FileEntry", <<r.path>>))
          [] s = "file-write" ->
                FireOk([r EXCEPT !.trace = Append(@, "file-write")], "file-write", NoVal)

\* the promise of the current step is fulfilled: the next then() runs
Advance(r, fn) == Begin([r EXCEPT !.step = @ + 1], fn)

\* observers that take every filename as present
AnyFilename(fn) == TRUE

\* a filename the observers take as present
Truthy(fn) == fn # Undefined /\ fn # ""

\* the record of an invocation that begins now
NewCall(op) ==
    [Idle EXCEPT !.op = op,
                 !.cached = (fileSystem # NoFs),
                 !.prior = {q \in Procs : proc[q].pc \in {"done", "async"}}]

\* the owner calls an operation
Start(p, op, fn) ==
    /\ p = calls + 1
    /\ p <= MaxCalls
    /\ calls' = p
    /\ proc' = [proc EXCEPT ![p] = RequestFilesystemImpl(NewCall(op), fn)]

requestFilesystem ==
    /\ \E p \in Procs : Start(p, "requestFilesystem", filename)
    /\ UNCHANGED <<assigns, backend, quota, grantedQuota, fileSystem, filename, content, auto,
                   files, fsSets, gqSets>>

getFile ==
    /\ \E p \in Procs : Start(p, "getFile", filename)
    /\ UNCHANGED <<assigns, backend, quota, grantedQuota, fileSystem, filename, content, auto,
                   files, fsSets, gqSets>>

list ==
    /\ \E p \in Procs : Start(p, "list", filename)
    /\ UNCHANGED <<assigns, backend, quota, grantedQuota, fileSystem, filename, content, auto,
                   files, fsSets, gqSets>>

readFile ==
    /\ \E p \in Procs : Start(p, "readFile", filename)
    /\ UNCHANGED <<assigns, backend, quota, grantedQuota, fileSystem, filename, content, auto,
                   files, fsSets, gqSets>>

writeFile ==
    /\ \E p \in Procs : Start(p, "writeFile", filename)
    /\ UNCHANGED <<assigns, backend, quota, grantedQuota, fileSystem, filename, content, auto,
                   files, fsSets, gqSets>>

\* a remove() that takes any filename as present
FilenamePresent(fn) == FALSE

\* remove()'s test: !this.filename || this.filename === ''
FilenameMissing(fn) == ~Truthy(fn)

\* remove(): without a filename it fires error and returns at once
remove ==
    /\ \E p \in Procs :
          IF FilenameMissing(filename)
          THEN /\ p = calls + 1
               /\ p <= MaxCalls
               /\ calls' = p
               /\ proc' = [proc EXCEPT ![p] =
                             FireError(NewCall("remove"),
                                       ErrorObj(<<"Filename not present.">>))]
          ELSE Start(p, "remove", filename)
    /\ UNCHANGED <<assigns, backend, quota, grantedQuota, fileSystem, filename, content, auto,
                   files, fsSets, gqSets>>

\* getUsageAndQuota(): the persistent backend queries the platform at once, the
\* synced backend mounts first
getUsageAndQuota ==
    /\ \E p \in Procs :
          IF backend = "sync"
          THEN Start(p, "getUsageAndQuota", filename)
          ELSE /\ p = calls + 1
               /\ p <= MaxCalls
               /\ calls' = p
               /\ proc' = [proc EXCEPT ![p] =
                             [NewCall("getUsageAndQuota") EXCEPT !.pc = "usage"]]
    /\ UNCHANGED <<assigns, backend, quota, grantedQuota, fileSystem, filename, content, auto,
                   files, fsSets, gqSets>>

\* a requestQuota callback that does not record the granted bytes
QuotaGrantedUnrecorded ==
    \E p \in Procs :
        /\ backend = "persistent"
        /\ Settled
        /\ proc[p].pc = "quota"
        /\ proc' = [proc EXCEPT ![p].pc = "fs", ![p].reqs = @ + 1]
        /\ UNCHANGED <<assigns, backend, quota, grantedQuota, fileSystem, filename, content,
                       auto, files, calls, fsSets, gqSets>>

\* requestQuota's success callback
QuotaGranted ==
    \E p \in Procs, g \in 0..quota :
        /\ backend = "persistent"
        /\ Settled
        /\ proc[p].pc = "quota"
        /\ grantedQuota' = g
        /\ gqSets' = gqSets + 1
        /\ proc' = [proc EXCEPT ![p].pc = "fs", ![p].reqs = @ + 1]
        /\ UNCHANGED <<assigns, backend, quota, fileSystem, filename, content, auto, files,
                       calls, fsSets>>

\* requestQuota's error callback (onError)
QuotaDenied ==
    \E p \in Procs :
        /\ backend = "persistent"
        /\ Settled
        /\ proc[p].pc = "quota"
        /\ proc' = [proc EXCEPT ![p] = AfterMountFail(@, SomeError)]
        /\ UNCHANGED <<assigns, backend, quota, grantedQuota, fileSystem, filename, content,
                       auto, files, calls, fsSets, gqSets>>

\* _setFileSystem(fs) in onInit and in the synced backend's callback
SetFileSystem(fs) ==
    /\ fileSystem' = fs
    /\ fsSets' = fsSets + 1

\* window.requestFileSystem's success callback (onInit)
FsInit ==
    \E p \in Procs :
        /\ backend = "persistent"
        /\ Settled
        /\ proc[p].pc = "fs"
        /\ SetFileSystem(p)
        /\ proc' = [proc EXCEPT ![p] = AfterMountOk(@, filename)]
        /\ UNCHANGED <<assigns, backend, quota, grantedQuota, filename, content, auto, files,
                       calls, gqSets>>

\* window.requestFileSystem's error callback (onError)
FsError ==
    \E p \in Procs :
        /\ backend = "persistent"
        /\ Settled
        /\ proc[p].pc = "fs"
        /\ proc' = [proc EXCEPT ![p] = AfterMountFail(@, SomeError)]
        /\ UNCHANGED <<assigns, backend, quota, grantedQuota, fileSystem, filename, content,
                       auto, files, calls, fsSets, gqSets>>

\* chrome.syncFileSystem.requestFileSystem's callback with a filesystem
SyncFsReady ==
    \E p \in Procs :
        /\ backend = "sync"
        /\ Settled
        /\ proc[p].pc = "fs"
        /\ SetFileSystem(p)
        /\ proc' = [proc EXCEPT ![p] = AfterMountOk(@, filename)]
        /\ UNCHANGED <<assigns, backend, quota, grantedQuota, filename, content, auto, files,
                       calls, gqSets>>

\* chrome.syncFileSystem.requestFileSystem's callback with null:
\* the promise is rejected with chrome.runtime.lastError
SyncFsNull ==
    \E p \in Procs, e \in LastErrors :
        /\ backend = "sync"
        /\ Settled
        /\ proc[p].pc = "fs"
        /\ proc' = [proc EXCEPT ![p] = AfterMountFail(@, e)]
        /\ UNCHANGED <<assigns, backend, quota, grantedQuota, fileSystem, filename, content,
                       auto, files, calls, fsSets, gqSets>>

(* --------------------------- root.getFile ----------------------------- *)
\* root.getFile(path, {create: true}) succeeds: the file exists from now on
OpenOk ==
    \E p \in Procs :
        /\ Settled
        /\ proc[p].pc = "open"
        /\ proc[p].path \in Paths
        /\ files' = [files EXCEPT ![proc[p].path].exists = TRUE]
        /\ proc' = [proc EXCEPT ![p] =
                      Advance([@ EXCEPT !.trace = Append(@, "opened")], filename)]
        /\ UNCHANGED <<assigns, backend, quota, grantedQuota, fileSystem, filename, content,
                       auto, calls, fsSets, gqSets>>

\* root.getFile fails (an empty path names the root itself, or any platform error)
OpenFail ==
    \E p \in Procs :
        /\ Settled
        /\ proc[p].pc = "open"
        /\ proc' = [proc EXCEPT ![p] = OpCatch(@, SomeError)]
        /\ UNCHANGED <<assigns, backend, quota, grantedQuota, fileSystem, filename, content,
                       auto, files, calls, fsSets, gqSets>>

(* ------------------------------- remove ------------------------------- *)
\* fileEntry.remove()'s success callback: the file is gone
DeleteOk ==
    \E p \in Procs :
        /\ Settled
        /\ proc[p].pc = "delete"
        /\ files[proc[p].path].exists
        /\ files' = [files EXCEPT ![proc[p].path] = NoFile]
        /\ proc' = [proc EXCEPT ![p] = FireOk(@, "removed", NoVal)]
        /\ UNCHANGED <<assigns, backend, quota, grantedQuota, fileSystem, filename, content,
                       auto, calls, fsSets, gqSets>>

\* fileEntry.remove()'s error callback
DeleteFail ==
    \E p \in Procs :
        /\ Settled
        /\ proc[p].pc = "delete"
        /\ proc' = [proc EXCEPT ![p] = FireError(@, SomeError)]
        /\ UNCHANGED <<assigns, backend, quota, grantedQuota, fileSystem, filename, content,
                       auto, files, calls, fsSets, gqSets>>

(* -------------------------- getUsageAndQuota --------------------------- *)
\* the callback of queryUsageAndQuota, or of chrome.syncFileSystem.getUsageAndQuota
\* with the usage
UsageOk ==
    \E p \in Procs :
        /\ Settled
        /\ proc[p].pc = "usage"
        /\ proc' = [proc EXCEPT ![p] = FireOk(@, "filesystem-usage", NoVal)]
        /\ UNCHANGED <<assigns, backend, quota, grantedQuota, fileSystem, filename, content,
                       auto, files, calls, fsSets, gqSets>>

\* the usage query fails: queryUsageAndQuota's error callback fires error; the
\* synced backend's only callback then gets no info, and reading
\* info.usageBytes throws in the callback, where nothing catches it
UsageFail ==
    \E p \in Procs :
        /\ Settled
        /\ proc[p].pc = "usage"
        /\ proc' = [proc EXCEPT ![p] =
                      IF backend = "persistent"
                      THEN FireError(@, SomeError)
                      ELSE Finish([@ EXCEPT !.trace = Append(@, "threw")])]
        /\ UNCHANGED <<assigns, backend, quota, grantedQuota, fileSystem, filename, content,
                       auto, files, calls, fsSets, gqSets>>

(* -------------------------------- list -------------------------------- *)
RECURSIVE Perms(_)
\* the orderings of a finite set
Perms(S) ==
    IF S = {} THEN {<< >>}
    ELSE UNION {{<<x>> \o t : t \in Perms(S \ {x})} : x \in S}

Range(s) == {s[i] : i \in 1..Len(s)}

\* String(entry) of a FileEntry: the interface has no stringifier of its own
ToStringOf(entry) == "[object FileEntry]"

\* the place of a string conversion in the order of strings
StringRank(str) ==
    CASE str = "[object DirectoryEntry]" -> 1
      [] str = "[object FileEntry]" -> 2

\* Array.prototype.sort()'s default comparison: by the elements' string conversions
SortsBefore(x, y) == StringRank(ToStringOf(x)) < StringRank(ToStringOf(y))

\* x put into the sorted t, behind the elements it does not sort before
RECURSIVE InsertSorted(_, _)
InsertSorted(x, t) ==
    IF t = << >> THEN <<x>>
    ELSE IF SortsBefore(x, t[1]) THEN <<x>> \o t
         ELSE <<t[1]>> \o InsertSorted(x, Tail(t))

\* entries.sort(): the elements in the order of the default comparison, the
\* elements that compare equal in the order they had
RECURSIVE ArraySort(_)
ArraySort(s) ==
    IF s = << >> THEN << >>
    ELSE InsertSorted(s[Len(s)], ArraySort(SubSeq(s, 1, Len(s) - 1)))

\* an accumulation that keeps only the last page
AccumulateLastPage(entries, results) == results

\* entries = entries.concat(Array.from(results))
Accumulate(entries, results) == entries \o results

\* readEntries' callback with a non-empty page: any of the remaining entries
\* (the history keeps the first two pages)
PageMore ==
    \E p \in Procs :
        /\ Settled
        /\ proc[p].pc = "page"
        /\ \E S \in (SUBSET proc[p].rem) \ {{}} :
              \E results \in Perms(S) :
                 proc' = [proc EXCEPT ![p].data = Accumulate(@, results),
                                      ![p].rem = @ \ S,
                                      ![p].trace = IF Len(@) < 2 THEN Append(@, "page")
                                                   ELSE @]
        /\ UNCHANGED <<assigns, backend, quota, grantedQuota, fileSystem, filename, content,
                       auto, files, calls, fsSets, gqSets>>

\* readEntries' callback with an empty page: nothing is left to read
PageEmpty ==
    \E p \in Procs :
        /\ Settled
        /\ proc[p].pc = "page"
        /\ proc[p].rem = {}
        /\ proc' = [proc EXCEPT ![p] =
                      FireOk([@ EXCEPT !.trace = Append(@, "empty")],
                             "directory-read", Val("files", ArraySort(proc[p].data)))]
        /\ UNCHANGED <<assigns, backend, quota, grantedQuota, fileSystem, filename, content,
                       auto, files, calls, fsSets, gqSets>>

\* readEntries' error callback
PageError ==
    \E p \in Procs :
        /\ Settled
        /\ proc[p].pc = "page"
        /\ proc' = [proc EXCEPT ![p] = FireError(@, SomeError)]
        /\ UNCHANGED <<assigns, backend, quota, grantedQuota, fileSystem, filename, content,
                       auto, files, calls, fsSets, gqSets>>

(* ------------------------------ content ------------------------------- *)
\* code units the owner's strings are made of: a letter, an unpaired surrogate
\* and U+FEFF; U+FFFD only ever comes out of a read
Letter == "a"
LoneSurrogate == "\\uD800"
Bom == "\\uFEFF"
Replacement == "\\uFFFD"
Chars == {Letter, LoneSurrogate, Bom}
Strings == SeqsUpTo(Chars, MaxLen)

Str(s) == Val("string", s)
UndefinedContent == Val("undefined", << >>)

\* new Blob([string]): the string as scalar values in UTF-8, an unpaired
\* surrogate replaced by U+FFFD.  The stored data is kept as one cell per
\* encoded scalar value.
EncodeUnit(c) == IF c = LoneSurrogate THEN Replacement ELSE c
Utf8Encode(s) == [i \in 1..Len(s) |-> EncodeUnit(s[i])]

\* the blob _writeFileEntry builds from this.content
BlobOf(c) == IF c.kind = "string" THEN Utf8Encode(c.val) ELSE << >>

\* FileReader.readAsText(file): UTF-8 decoding, which drops a leading byte order mark
Utf8Decode(data) ==
    IF Len(data) > 0 /\ data[1] = Bom THEN SubSeq(data, 2, Len(data)) ELSE data

\* a write that leaves nothing but the blob in the file
WriteWhole(old, blob) == blob

\* fileWriter.write(blob) of a fresh writer: the blob replaces the data from
\* position 0 on, what lies beyond the blob's end stays
WriteAt0(old, blob) ==
    IF Len(blob) >= Len(old) THEN blob ELSE blob \o SubSeq(old, Len(blob) + 1, Len(old))

\* a truncate that leaves the data as it is
TruncateNothing(old) == old

\* fileWriter.truncate(0)
Truncate0(old) == << >>

(* ------------------------------ readFile ------------------------------ *)
\* fileEntry.file()'s success callback: a snapshot of the file; readAsText starts
FileOk ==
    \E p \in Procs :
        /\ Settled
        /\ proc[p].pc = "file"
        /\ files[proc[p].path].exists
        /\ proc' = [proc EXCEPT ![p].pc = "load", ![p].data = files[proc[p].path].data]
        /\ UNCHANGED <<assigns, backend, quota, grantedQuota, fileSystem, filename, content,
                       auto, files, calls, fsSets, gqSets>>

\* fileEntry.file()'s error callback
FileFail ==
    \E p \in Procs :
        /\ Settled
        /\ proc[p].pc = "file"
        /\ proc' = [proc EXCEPT ![p] = FireError(@, SomeError)]
        /\ UNCHANGED <<assigns, backend, quota, grantedQuota, fileSystem, filename, content,
                       auto, files, calls, fsSets, gqSets>>

\* a readFile() that leaves auto as it is while it assigns content
AutoLeftOn == auto

\* the value readFile() gives auto before it assigns content
SuspendedAuto == FALSE

\* reader.onloadend after a successful read, and readFile's then(): auto is
\* saved and switched off, content is assigned (its observer _contentChanged
\* runs under the auto just set), the restoring callback is handed to async()
\* and file-read is fired
LoadEnd ==
    \E p \in Procs :
        /\ Settled
        /\ proc[p].pc = "load"
        /\ LET result == Utf8Decode(proc[p].data)
               r == [FireOk(proc[p], "file-read", Val("content", result))
                        EXCEPT !.pc = "async", !.saved = auto]
           IN  /\ auto' = SuspendedAuto
               /\ content' = Str(result)
               /\ IF SuspendedAuto /\ Truthy(filename) /\ Str(result) # content
                  THEN /\ calls + 1 <= MaxCalls
                       /\ calls' = calls + 1
                       /\ proc' = [proc EXCEPT
                                     ![p] = r,
                                     ![calls + 1] =
                                         RequestFilesystemImpl(NewCall("writeFile"), filename)]
                  ELSE /\ calls' = calls
                       /\ proc' = [proc EXCEPT ![p] = r]
        /\ UNCHANGED <<assigns, backend, quota, grantedQuota, fileSystem, filename, files,
                       fsSets, gqSets>>

\* reader.onerror
LoadError ==
    \E p \in Procs :
        /\ Settled
        /\ proc[p].pc = "load"
        /\ proc' = [proc EXCEPT ![p] = FireError(@, SomeError)]
        /\ UNCHANGED <<assigns, backend, quota, grantedQuota, fileSystem, filename, content,
                       auto, files, calls, fsSets, gqSets>>

\* a deferred callback that leaves auto switched off
AsyncRestoreOff ==
    \E p \in Procs :
        /\ proc[p].pc = "async"
        /\ auto' = FALSE
        /\ proc' = [proc EXCEPT ![p].pc = "done"]
        /\ UNCHANGED <<assigns, backend, quota, grantedQuota, fileSystem, filename, content,
                       files, calls, fsSets, gqSets>>

\* the callback readFile handed to this.async(): auto gets its saved value back
AsyncRestore ==
    \E p \in Procs :
        /\ proc[p].pc = "async"
        /\ auto' = proc[p].saved
        /\ proc' = [proc EXCEPT ![p].pc = "done"]
        /\ UNCHANGED <<assigns, backend, quota, grantedQuota, fileSystem, filename, content,
                       files, calls, fsSets, gqSets>>

(* ----------------------------- writeFile ------------------------------ *)
\* createWriter's success callback: _truncate calls truncate(0), _writeFileEntry
\* builds the blob from this.content and calls write(blob)
CreateWriterOk ==
    \E p \in Procs :
        /\ Settled
        /\ proc[p].pc = "crw"
        /\ proc' = [proc EXCEPT ![p] =
                      IF CurrentStep(@) = "_truncate"
                      THEN [@ EXCEPT !.pc = "trunc", !.tpath = proc[p].path]
                      ELSE [@ EXCEPT !.pc = "write", !.data = BlobOf(content),
                                     !.src = content,
                                     !.peers = {r \in Procs \ {p} :
                                                   /\ proc[r].op = "writeFile"
                                                   /\ "truncated" \in Range(proc[r].trace)
                                                   /\ proc[r].pc \notin {"write", "done"}}]]
        /\ UNCHANGED <<assigns, backend, quota, grantedQuota, fileSystem, filename, content,
                       auto, files, calls, fsSets, gqSets>>

\* createWriter's error callback
CreateWriterFail ==
    \E p \in Procs :
        /\ Settled
        /\ proc[p].pc = "crw"
        /\ proc' = [proc EXCEPT ![p] = FireError(@, SomeError)]
        /\ UNCHANGED <<assigns, backend, quota, grantedQuota, fileSystem, filename, content,
                       auto, files, calls, fsSets, gqSets>>

\* onwriteend of truncate(0): the file is empty, and the chain goes on
TruncateEnd ==
    \E p \in Procs :
        /\ Settled
        /\ proc[p].pc = "trunc"
        /\ files[proc[p].path].exists
        /\ files' = [files EXCEPT ![proc[p].path].data = Truncate0(@)]
        /\ proc' = [proc EXCEPT ![p] =
                      Advance([@ EXCEPT !.trace = Append(@, "truncated")], filename)]
        /\ UNCHANGED <<assigns, backend, quota, grantedQuota, fileSystem, filename, content,
                       auto, calls, fsSets, gqSets>>

\* onerror of truncate(0)
TruncateError ==
    \E p \in Procs :
        /\ Settled
        /\ proc[p].pc = "trunc"
        /\ proc' = [proc EXCEPT ![p] = FireError(@, SomeError)]
        /\ UNCHANGED <<assigns, backend, quota, grantedQuota, fileSystem, filename, content,
                       auto, files, calls, fsSets, gqSets>>

\* onwriteend of write(blob): the blob is in the file, and the chain goes on
WriteEnd ==
    \E p \in Procs :
        /\ Settled
        /\ proc[p].pc = "write"
        /\ files[proc[p].path].exists
        /\ files' = [files EXCEPT ![proc[p].path].data = WriteAt0(@, proc[p].data)]
        /\ proc' = [proc EXCEPT ![p] =
                      Advance([@ EXCEPT !.trace = Append(@, "written")], filename)]
        /\ UNCHANGED <<assigns, backend, quota, grantedQuota, fileSystem, filename, content,
                       auto, calls, fsSets, gqSets>>

\* onerror of write(blob)
WriteError ==
    \E p \in Procs :
        /\ Settled
        /\ proc[p].pc = "write"
        /\ proc' = [proc EXCEPT ![p] = FireError(@, SomeError)]
        /\ UNCHANGED <<assigns, backend, quota, grantedQuota, fileSystem, filename, content,
                       auto, files, calls, fsSets, gqSets>>

(* ------------------------- the owner's writes -------------------------- *)
\* the owner assigns filename; _filenameChanged reads the file when auto is set
SetFilename ==
    \E fn \in {"", "f", "g"} :
        /\ fn # filename
        /\ assigns < MaxAssigns
        /\ assigns' = assigns + 1
        /\ filename' = fn
        /\ IF auto /\ Truthy(fn)
           THEN \E p \in Procs : Start(p, "readFile", fn)
           ELSE UNCHANGED <<proc, calls>>
        /\ UNCHANGED <<backend, quota, grantedQuota, fileSystem, content, auto, files,
                       fsSets, gqSets>>

\* the owner assigns content; _contentChanged writes the file when auto is set
SetContent ==
    \E c \in Strings :
        /\ Str(c) # content
        /\ assigns < MaxAssigns
        /\ assigns' = assigns + 1
        /\ content' = Str(c)
        /\ IF auto /\ Truthy(filename)
           THEN \E p \in Procs : Start(p, "writeFile", filename)
           ELSE UNCHANGED <<proc, calls>>
        /\ UNCHANGED <<backend, quota, grantedQuota, fileSystem, filename, auto, files,
                       fsSets, gqSets>>

(* --------------------------- specifications --------------------------- *)
\* the properties' default values, before the owner has set filename or content
Constructed ==
    /\ grantedQuota = 0
    /\ fileSystem = NoFs
    /\ filename = Undefined
    /\ content = UndefinedContent
    /\ proc = [p \in Procs |-> Idle]
    /\ calls = 0
    /\ fsSets = 0
    /\ gqSets = 0
    /\ assigns = 0

\* either backend over an empty root: mounts, getFile() and list()
Init ==
    /\ backend \in {"persistent", "sync"}
    /\ quota \in (IF backend = "persistent" THEN 0..MaxQuota ELSE {0})
    /\ files = [n \in Paths |-> NoFile]
    /\ auto = FALSE
    /\ Constructed

Next ==
    \/ requestFilesystem
    \/ getFile
    \/ list
    \/ QuotaGranted
    \/ QuotaDenied
    \/ FsInit
    \/ FsError
    \/ SyncFsReady
    \/ SyncFsNull
    \/ OpenOk
    \/ OpenFail
    \/ PageMore
    \/ PageEmpty
    \/ PageError

Spec == Init /\ [][Next]_vars

(* ------------------------------- mounts ------------------------------- *)
Started == 1..calls
\* invocations that found no cached root when they were made
Uncached == {p \in Started : ~proc[p].cached}
\* invocations whose mount request the platform has not answered yet
MountsInFlight == {p \in Procs : proc[p].pc \in MountPcs}
\* invocations that issued a platform mount request
MountAttempts == {p \in Procs : proc[p].reqs > 0}
MountFailed(p) == "mount-failed" \in Range(proc[p].trace)

\* C1: an operation made once the root is cached issues no platform request and
\* goes on with the cached root at once (requestFilesystem() fires
\* filesystem-ready in the same task); when every call after the first found
\* the root cached, the platform saw exactly one mount attempt.
IdempotentMount ==
    /\ \A p \in Started :
          proc[p].cached =>
             /\ proc[p].reqs = 0
             /\ proc[p].pc \notin MountPcs
             /\ ~MountFailed(p)
             /\ proc[p].op = "requestFilesystem" => proc[p].ev = "filesystem-ready"
    /\ (calls >= 2 /\ \A p \in 2..calls : proc[p].cached) =>
          /\ MountAttempts = {1}
          /\ fsSets = 1

\* a second requestFilesystem(), made after the first succeeded, is done
IdempotentMountWitness ==
    /\ calls >= 2
    /\ proc[1].op = "requestFilesystem"
    /\ proc[1].ev = "filesystem-ready"
    /\ \A p \in 2..calls : /\ proc[p].cached
                           /\ proc[p].op = "requestFilesystem"
                           /\ proc[p].ev = "filesystem-ready"

\* C2 as claimed: at most one mount attempt is in flight
OneMountInFlight == Cardinality(MountsInFlight) <= 1

\* C2, amended: every operation made while no root is cached issues its own
\* platform mount request, so as many attempts can be in flight as there are
\* such operations, and never more; an operation made once the root is cached
\* issues none.
MountPerUncachedCall ==
    /\ \A p \in Started : (proc[p].reqs > 0) <=> ~proc[p].cached
    /\ MountsInFlight \subseteq Uncached
    /\ Cardinality(MountsInFlight) <= Cardinality(Uncached)

\* two operations of different kinds wait for their own mount requests
MountPerUncachedCallWitness ==
    \E p, q \in MountsInFlight : p # q /\ proc[p].op # proc[q].op

\* C3 as claimed: the cached root is assigned at most once
RootAssignedOnce == fsSets <= 1

\* C3, amended: the root is assigned by every mount attempt that succeeds, so
\* more than once when attempts overlap; it is assigned only by operations made
\* while it was unset, at most once by each, and is never unset again.
RootAssignedPerAttempt ==
    /\ fsSets <= Cardinality(Uncached)
    /\ (fsSets = 0) <=> (fileSystem = NoFs)
    /\ fileSystem # NoFs => fileSystem \in Uncached

\* a later mount completion has replaced the root an earlier one cached
RootAssignedPerAttemptWitness == fsSets >= 2 /\ fileSystem # NoFs

\* C4 as claimed: grantedQuota is assigned at most once, and only by a mount
\* that succeeds
GrantedOnMountOnly ==
    /\ gqSets <= 1
    /\ fsSets = 0 => (gqSets = 0 /\ grantedQuota = 0)

\* C4, amended: with the persistent backend grantedQuota is assigned when a
\* quota request is granted, before the filesystem is requested and whether or
\* not that request succeeds: once by every mount attempt that got a grant,
\* never by an operation made once the root is cached.  It is 0 in every state
\* in which no quota request has been granted.
GrantedPerQuotaGrant ==
    backend = "persistent" =>
       /\ gqSets = Cardinality({p \in Procs : proc[p].reqs >= 2})
       /\ gqSets <= Cardinality(Uncached)
       /\ fsSets <= gqSets
       /\ gqSets = 0 => grantedQuota = 0

\* the grant is recorded although the filesystem request then failed
GrantedPerQuotaGrantWitness ==
    /\ backend = "persistent"
    /\ gqSets = 1
    /\ grantedQuota > 0
    /\ fsSets = 0
    /\ \E p \in Procs : MountFailed(p) /\ proc[p].reqs = 2

\* C10 as claimed, for the error that names the cause itself: with the synced
\* backend a getFile() or list() whose mount fails with a null handle and an
\* error message that holds the sentinel 'error code: -107', at any position,
\* reports the not-signed-in message and never the platform's error
SentinelNeverReported ==
    \A p \in Procs :
        (backend = "sync" /\ MountFailed(p) /\ proc[p].op \in {"list", "getFile"}) =>
            Sentinel \notin Range(proc[p].payload.val)

(* -------------------------------- list -------------------------------- *)
\* the persistent backend over a root that holds any of the files: list() only
InitList ==
    /\ backend = "persistent"
    /\ quota = MaxQuota
    /\ files \in [Paths -> {NoFile, [exists |-> TRUE, data |-> << >>]}]
    /\ auto = FALSE
    /\ Constructed

NextList ==
    \/ list
    \/ QuotaGranted
    \/ QuotaDenied
    \/ FsInit
    \/ FsError
    \/ PageMore
    \/ PageEmpty
    \/ PageError

SpecList == InitList /\ [][NextList]_vars

Count(s, x) == Cardinality({i \in 1..Len(s) : s[i] = x})

\* C8: a list() fires directory-read once, after the empty page and not before,
\* and never together with an error; its files hold every entry of the root
\* exactly once, however the platform cut the entries into pages.
ListComplete ==
    \A p \in Procs :
        proc[p].op = "list" =>
           /\ proc[p].pc = "page" => (proc[p].oks = 0 /\ proc[p].errs = 0)
           /\ proc[p].ev = "directory-read" =>
                 /\ proc[p].oks = 1
                 /\ proc[p].errs = 0
                 /\ proc[p].trace[Len(proc[p].trace)] = "empty"
                 /\ Len(proc[p].payload.val) = Cardinality(Existing)
                 /\ \A n \in Existing : Count(proc[p].payload.val, n) = 1

\* three entries that came in more than one page are all reported
ListCompleteWitness ==
    \E p \in Procs :
        /\ proc[p].ev = "directory-read"
        /\ Cardinality(Existing) = 3
        /\ Count(proc[p].trace, "page") >= 2
        /\ Len(proc[p].payload.val) = 3

\* the order of file names (of their code units)
NameRank(n) == CASE n = "f" -> 1 [] n = "g" -> 2 [] n = Undefined -> 3

\* C9 as claimed: the files of directory-read are ordered by name
ListSortedByName ==
    \A p \in Procs :
        proc[p].ev = "directory-read" =>
            \A i, j \in 1..Len(proc[p].payload.val) :
                i < j => NameRank(proc[p].payload.val[i]) < NameRank(proc[p].payload.val[j])

(* ------------------------- reading and writing ------------------------- *)
\* the persistent backend over an empty root, the element with or without the
\* auto attribute: the owner sets filename and content and calls readFile()
\* and writeFile()
InitFiles ==
    /\ backend = "persistent"
    /\ quota = MaxQuota
    /\ files = [n \in Paths |-> NoFile]
    /\ auto \in BOOLEAN
    /\ Constructed

NextFiles ==
    \/ SetFilename
    \/ SetContent
    \/ readFile
    \/ writeFile
    \/ QuotaGranted
    \/ QuotaDenied
    \/ FsInit
    \/ FsError
    \/ OpenOk
    \/ OpenFail
    \/ FileOk
    \/ FileFail
    \/ LoadEnd
    \/ LoadError
    \/ AsyncRestore
    \/ CreateWriterOk
    \/ CreateWriterFail
    \/ TruncateEnd
    \/ TruncateError
    \/ WriteEnd
    \/ WriteError

SpecFiles == InitFiles /\ [][NextFiles]_vars

IsPrefix(s, t) == Len(s) <= Len(t) /\ \A i \in 1..Len(s) : s[i] = t[i]

\* operations that change a file
Modifiers == {"writeFile", "remove"}

\* every other invocation that changes files had finished when p was made
Alone(p) ==
    \A r \in Started \ {p} : proc[r].op \in Modifiers => r \in proc[p].prior

\* p is a finished writeFile() that truncated and wrote the file at path
WroteTo(p, path) ==
    /\ proc[p].op = "writeFile"
    /\ proc[p].ev = "file-write"
    /\ proc[p].tpath = path
    /\ proc[p].path = path

\* in this step the readFile() q fires file-read for a file that the
\* writeFile() p, finished before q was made, was the last to change
ReadsBack(q, p) ==
    /\ proc[q].op = "readFile"
    /\ proc[q].pc = "load"
    /\ proc'[q].ev = "file-read"
    /\ p \in proc[q].prior
    /\ Truthy(proc[q].path)
    /\ WroteTo(p, proc[q].path)
    /\ proc[p].src.kind = "string"
    /\ Alone(p)

\* a string that UTF-8 text holds as it is: no unpaired surrogate, no leading U+FEFF
WellFormed(c) ==
    /\ LoneSurrogate \notin Range(c)
    /\ c # << >> => c[1] # Bom

\* C5 as claimed: whatever string a finished writeFile() wrote, a readFile()
\* that follows it fires file-read with that string and leaves it in content
RoundTripAnyString ==
    [][\A q, p \in Procs :
          ReadsBack(q, p) =>
             /\ proc'[q].payload.val = proc[p].src.val
             /\ content' = proc[p].src]_vars

\* C5, amended: the round trip holds for every string content that has no
\* unpaired surrogate and does not begin with U+FEFF (new Blob() stores an
\* unpaired surrogate as U+FFFD, readAsText() drops a leading U+FEFF).
RoundTripWellFormed ==
    [][\A q, p \in Procs :
          (ReadsBack(q, p) /\ WellFormed(proc[p].src.val)) =>
             /\ proc'[q].payload.val = proc[p].src.val
             /\ content' = proc[p].src]_vars

\* a non-empty well-formed string was written, read back and is the content
RoundTripWitness ==
    \E q, p \in Procs :
        /\ proc[q].op = "readFile"
        /\ proc[q].ev = "file-read"
        /\ p \in proc[q].prior
        /\ Truthy(proc[q].path)
        /\ WroteTo(p, proc[q].path)
        /\ proc[p].src = Str(<<Letter>>)
        /\ proc[q].payload.val = <<Letter>>
        /\ content = Str(<<Letter>>)

\* C6 as claimed: for every two writeFile() on the same filename, the later of
\* which (later made, later to fire file-write) writes the shorter content, the
\* file holds exactly the new content once the later one fires file-write
TruncateAnyPair ==
    [][\A q, p \in Procs :
          ( /\ proc[q].pc = "write"
            /\ proc'[q].ev = "file-write"
            /\ proc[q].tpath = proc[q].path
            /\ p < q
            /\ WroteTo(p, proc[q].path)
            /\ proc[p].src.kind = "string"
            /\ proc[q].src.kind = "string"
            /\ Len(BlobOf(proc[p].src)) > Len(proc[q].data) ) =>
              files'[proc[q].path].data = proc[q].data]_vars

\* C6, amended: when a writeFile() is made after a writeFile() of longer content
\* to the same file has fired file-write, no other writeFile() or remove()
\* overlaps it and filename stays as it is while it runs, the file holds
\* exactly the new content once file-write is fired.
TruncateBeforeWrite ==
    [][\A q, p \in Procs :
          ( /\ proc[q].pc = "write"
            /\ proc'[q].ev = "file-write"
            /\ proc[q].tpath = proc[q].path
            /\ Alone(q)
            /\ p \in proc[q].prior
            /\ WroteTo(p, proc[q].path)
            /\ Len(BlobOf(proc[p].src)) > Len(proc[q].data) ) =>
              /\ files'[proc[q].path].data = proc[q].data
              /\ Len(files'[proc[q].path].data) = Len(BlobOf(proc[q].src))]_vars

\* a shorter content was written over a longer one and nothing of it is left
TruncateBeforeWriteWitness ==
    \E q, p \in Procs :
        /\ WroteTo(q, proc[q].path)
        /\ p \in proc[q].prior
        /\ WroteTo(p, proc[q].path)
        /\ Len(BlobOf(proc[p].src)) > Len(BlobOf(proc[q].src))
        /\ files[proc[q].path].data = BlobOf(proc[q].src)

\* the steps of a writeFile() that succeeds, in order
WriteTrace ==
    <<"getFile", "opened", "_truncate", "truncated",
      "getFile", "opened", "_writeFileEntry", "written", "file-write">>

\* C7: the steps of one writeFile() come in this order only: handle, truncate,
\* truncate acknowledged, handle again, write, write acknowledged, file-write.
WriteStepsOrdered ==
    \A p \in Procs :
        proc[p].op = "writeFile" =>
           /\ IsPrefix(proc[p].trace, WriteTrace) \/ proc[p].trace = <<"mount-failed">>
           /\ (proc[p].ev = "file-write") <=> (proc[p].trace = WriteTrace)

\* a writeFile() went through all of its steps
WriteStepsOrderedWitness ==
    \E p \in Procs : proc[p].op = "writeFile" /\ proc[p].trace = WriteTrace

(* --------------------------- every operation --------------------------- *)
\* either backend over an empty root, auto unset: the owner sets filename and
\* calls every operation
InitOps ==
    /\ backend \in {"persistent", "sync"}
    /\ quota = (IF backend = "persistent" THEN MaxQuota ELSE 0)
    /\ files = [n \in Paths |-> NoFile]
    /\ auto = FALSE
    /\ Constructed

NextOps ==
    \/ SetFilename
    \/ requestFilesystem
    \/ getUsageAndQuota
    \/ readFile
    \/ writeFile
    \/ list
    \/ remove
    \/ QuotaGranted
    \/ QuotaDenied
    \/ FsInit
    \/ FsError
    \/ SyncFsReady
    \/ SyncFsNull
    \/ UsageOk
    \/ UsageFail
    \/ OpenOk
    \/ OpenFail
    \/ DeleteOk
    \/ DeleteFail
    \/ PageMore
    \/ PageEmpty
    \/ PageError
    \/ FileOk
    \/ FileFail
    \/ LoadEnd
    \/ LoadError
    \/ AsyncRestore
    \/ CreateWriterOk
    \/ CreateWriterFail
    \/ TruncateEnd
    \/ TruncateError
    \/ WriteEnd
    \/ WriteError

SpecOps == InitOps /\ [][NextOps]_vars

\* either backend over an empty root: the owner sets filename and calls remove()
NextRemove ==
    \/ SetFilename
    \/ remove
    \/ QuotaGranted
    \/ QuotaDenied
    \/ FsInit
    \/ FsError
    \/ SyncFsReady
    \/ SyncFsNull
    \/ OpenOk
    \/ OpenFail
    \/ DeleteOk
    \/ DeleteFail

SpecRemove == InitOps /\ [][NextRemove]_vars

\* in this step operation op is invoked, as invocation calls'
Invoking(op) == calls' = calls + 1 /\ proc'[calls'].op = op

\* C11: a remove() called while filename is unset or empty fires error exactly
\* once and is over: it issues no mount request, opens and deletes nothing,
\* fires no removed, and leaves the files, the cached root and every other
\* invocation as they were.
RemoveWithoutFilename ==
    [][(Invoking("remove") /\ (filename = Undefined \/ filename = "")) =>
          /\ proc'[calls'].pc = "done"
          /\ proc'[calls'].ev = "error"
          /\ proc'[calls'].errs = 1
          /\ proc'[calls'].oks = 0
          /\ proc'[calls'].reqs = 0
          /\ proc'[calls'].trace = << >>
          /\ files' = files
          /\ fileSystem' = fileSystem
          /\ fsSets' = fsSets
          /\ \A q \in Procs \ {calls'} : proc'[q] = proc[q]]_vars

\* remove() was called with an empty filename over a mounted root that holds
\* a file, and fired its error
RemoveWithoutFilenameWitness ==
    \E p \in Procs :
        /\ proc[p].op = "remove"
        /\ proc[p].payload = ErrorObj(<<"Filename not present.">>)
        /\ proc[p].errs = 1
        /\ filename = ""
        /\ fileSystem # NoFs
        /\ Existing # {}

(* ----------------------------- mirror mode ---------------------------- *)
\* in this step the readFile() q assigns what it read to content and fires file-read
Reading(q) == proc[q].op = "readFile" /\ proc[q].pc = "load" /\ proc'[q].ev = "file-read"

\* C12: with auto set and a non-empty filename, the step in which a readFile()
\* assigns the text it read to content starts no writeFile() and no other
\* invocation, and leaves every file as it is.
ReadStartsNoWrite ==
    [][\A q \in Procs :
          (Reading(q) /\ auto /\ Truthy(filename)) =>
             /\ content' = Str(proc'[q].payload.val)
             /\ calls' = calls
             /\ files' = files
             /\ \A p \in Procs \ {q} : proc'[p] = proc[p]]_vars

\* a readFile() under auto has given content a new value and no writeFile()
\* was ever started
ReadStartsNoWriteWitness ==
    \E q \in Procs :
        /\ proc[q].pc = "async"
        /\ proc[q].saved
        /\ Truthy(filename)
        /\ content = Str(proc[q].payload.val)
        /\ calls < MaxCalls
        /\ \A p \in Procs : proc[p].op # "writeFile"

\* the persistent backend over an empty root, the element with or without the
\* auto attribute, every platform request succeeding: the owner only assigns
\* filename and content, the observers start the operations
NextMirror ==
    \/ SetFilename
    \/ SetContent
    \/ QuotaGranted
    \/ FsInit
    \/ OpenOk
    \/ FileOk
    \/ LoadEnd
    \/ AsyncRestore
    \/ CreateWriterOk
    \/ TruncateEnd
    \/ WriteEnd

SpecMirror == InitFiles /\ [][NextMirror]_vars

\* the owner assigns filename, or content, in this step
AssigningFilename == filename' # filename
AssigningContent == content' # content /\ assigns' # assigns

NonEmpty(fn) == fn \notin {Undefined, ""}

\* C13 as claimed: while auto is set every assignment of a new filename starts a
\* readFile() and every assignment of new content starts a writeFile(); while
\* auto is not set neither starts anything
MirrorTriggersAlways ==
    [][/\ (AssigningFilename /\ auto) => Invoking("readFile")
       /\ (AssigningContent /\ auto) => Invoking("writeFile")
       /\ ((AssigningFilename \/ AssigningContent) /\ ~auto) => calls' = calls]_vars

\* C13, amended: while auto is set, the assignment of a new non-empty filename
\* starts a readFile() in the same step, and the assignment of new content
\* starts a writeFile() in the same step when filename is non-empty; the
\* assignment of an empty filename, or of content while filename is unset or
\* empty, starts nothing, and while auto is not set neither assignment starts
\* anything.
MirrorTriggersWithFilename ==
    [][/\ (AssigningFilename /\ auto /\ NonEmpty(filename')) =>
             (Invoking("readFile") /\ proc'[calls'].pc # "idle")
       /\ (AssigningContent /\ auto /\ NonEmpty(filename)) =>
             (Invoking("writeFile") /\ proc'[calls'].pc # "idle")
       /\ (AssigningFilename /\ ~(auto /\ NonEmpty(filename'))) => calls' = calls
       /\ (AssigningContent /\ ~(auto /\ NonEmpty(filename))) => calls' = calls]_vars

\* under auto the assignment of a filename started a readFile() and the
\* assignment of content a writeFile(), both still waiting for their mounts
MirrorTriggersWitness ==
    /\ auto
    /\ assigns = 2
    /\ calls = 2
    /\ proc[1].op = "readFile"
    /\ proc[2].op = "writeFile"
    /\ proc[1].pc \in MountPcs
    /\ proc[2].pc \in MountPcs

(* ------------------------------ failures ------------------------------- *)
\* a platform step fails: the quota request, the mount, the opening of the
\* file, the truncate, the write (or the creation of their writer), the read
\* of the blob, the read of a directory page, the deletion
StepFails ==
    \/ QuotaDenied
    \/ FsError
    \/ SyncFsNull
    \/ OpenFail
    \/ CreateWriterFail
    \/ TruncateError
    \/ WriteError
    \/ FileFail
    \/ LoadError
    \/ PageError
    \/ DeleteFail

\* the operations that report by notifications (getFile() reports by its promise)
Notifying ==
    {"requestFilesystem", "readFile", "writeFile", "list", "remove", "getUsageAndQuota"}

\* C14: when one of these platform steps of an operation fails, the invocation
\* fires error, once, has fired and fires no success notification, and is
\* over: an invocation that is over takes no further step.  (The usage query
\* itself is not one of the steps named: UsageFail.)
FailuresBecomeErrors ==
    [][/\ StepFails =>
             \A p \in Procs :
                (proc'[p] # proc[p] /\ proc[p].op \in Notifying) =>
                    /\ proc'[p].pc = "done"
                    /\ proc'[p].ev = "error"
                    /\ proc'[p].errs = 1
                    /\ proc'[p].oks = 0
                    /\ proc'[p].trace \in {proc[p].trace, Append(proc[p].trace, "mount-failed")}
       /\ \A p \in Procs : proc[p].pc = "done" => proc'[p] = proc[p]]_vars

\* a writeFile() whose write failed after its truncate has fired its one error
FailuresBecomeErrorsWitness ==
    \E p \in Procs :
        /\ proc[p].op = "writeFile"
        /\ proc[p].trace = <<"getFile", "opened", "_truncate", "truncated",
                              "getFile", "opened", "_writeFileEntry">>
        /\ proc[p].pc = "done"
        /\ proc[p].ev = "error"
        /\ proc[p].errs = 1

(* -------------------------- overlapping writes ------------------------- *)
\* the persistent backend over an empty root, auto unset, every platform
\* request succeeding: the owner sets content and calls writeFile(), which
\* writes the file named "undefined"
InitWrites ==
    /\ backend = "persistent"
    /\ quota = MaxQuota
    /\ files = [n \in Paths |-> NoFile]
    /\ auto = FALSE
    /\ Constructed

NextWrites ==
    \/ SetContent
    \/ writeFile
    \/ QuotaGranted
    \/ FsInit
    \/ OpenOk
    \/ CreateWriterOk
    \/ TruncateEnd
    \/ WriteEnd

SpecWrites == InitWrites /\ [][NextWrites]_vars

\* p and q are the only invocations that change files, both are writeFile()
\* that fired file-write for the file at path, q had its truncate acknowledged
\* and had not begun to write when p began to write, and the content changed
\* in between from p's longer string to q's shorter one
TruncatesBeforeWrites(p, q, path) ==
    /\ p # q
    /\ {r \in Started : proc[r].op \in Modifiers} = {p, q}
    /\ WroteTo(p, path)
    /\ WroteTo(q, path)
    /\ q \in proc[p].peers
    /\ proc[p].src.kind = "string"
    /\ proc[q].src.kind = "string"
    /\ Len(BlobOf(proc[q].src)) < Len(BlobOf(proc[p].src))

\* C15: two writeFile() that overlap can have both truncates acknowledged
\* before either write begins; when content then changes from longer to
\* shorter between the two writes, the file keeps the bytes of the earlier
\* write behind the later content (or all of the earlier write, when the
\* platform acknowledges the later write first) and is not the later content.
OverlapLeavesResidue ==
    \A p, q \in Procs : \A path \in Paths :
        TruncatesBeforeWrites(p, q, path) =>
           LET early == BlobOf(proc[p].src)
               late == BlobOf(proc[q].src)
               data == files[path].data
           IN  /\ data \in {late \o SubSeq(early, Len(late) + 1, Len(early)), early}
               /\ data # late
               /\ p \notin proc[q].prior
               /\ q \notin proc[p].prior

\* every write is over, the later content lies in the file with bytes of the
\* earlier write behind it, and the file is not what content holds
OverlapLeavesResidueWitness ==
    \E p, q \in Procs : \E path \in Paths :
        /\ TruncatesBeforeWrites(p, q, path)
        /\ \A r \in Procs : proc[r].pc \in {"idle", "done"}
        /\ content = proc[q].src
        /\ files[path].data =
              BlobOf(proc[q].src) \o SubSeq(BlobOf(proc[p].src), Len(BlobOf(proc[q].src)) + 1,
                                            Len(BlobOf(proc[p].src)))
        /\ files[path].data # BlobOf(content)

(* ------------------------------- reads --------------------------------- *)
\* the persistent backend over a root that holds f with one letter and an
\* empty g, the element with or without the auto attribute, every platform
\* request succeeding: the owner sets filename and calls readFile()
InitReads ==
    /\ backend = "persistent"
    /\ quota = MaxQuota
    /\ files = [n \in Paths |->
                  CASE n = "f" -> [exists |-> TRUE, data |-> <<Letter>>]
                    [] n = "g" -> [exists |-> TRUE, data |-> << >>]
                    [] OTHER -> NoFile]
    /\ auto \in BOOLEAN
    /\ Constructed

NextReads ==
    \/ SetFilename
    \/ readFile
    \/ QuotaGranted
    \/ FsInit
    \/ OpenOk
    \/ FileOk
    \/ LoadEnd
    \/ AsyncRestore

SpecReads == InitReads /\ [][NextReads]_vars

\* the readFile() that have fired file-read
ReadsDone == {p \in Procs : proc[p].op = "readFile" /\ proc[p].ev = "file-read"}

\* C16: once the deferred callbacks of all readFile() that completed have run,
\* auto has the value it had before each of them, overlapping or not (the owner
\* assigns auto nowhere): a suspension never outlives its callback, and auto
\* that was set is set again.
AutoRestored ==
    /\ Settled => \A p \in ReadsDone : auto = proc[p].saved
    /\ \A p, q \in ReadsDone : proc[p].saved = proc[q].saved
    /\ ~Settled => ~auto

\* two readFile() that overlapped have both completed under auto, and auto is set
AutoRestoredWitness ==
    \E p, q \in ReadsDone :
        /\ p # q
        /\ p \notin proc[q].prior
        /\ q \notin proc[p].prior
        /\ proc[p].pc = "done"
        /\ proc[q].pc = "done"
        /\ proc[p].saved
        /\ auto

\* auto as the owner set it: the flag itself, or the value a readFile() saved
\* and has not given back yet
OwnerAuto == auto \/ \E p \in Procs : proc[p].pc = "async" /\ proc[p].saved

\* C17 as claimed: when the owner has set auto and never clears it, every
\* assignment of content (filename being non-empty) starts a writeFile() and
\* every assignment of a non-empty filename starts a readFile(), also between a
\* readFile()'s assignment of content and its deferred callback
NoAssignmentLost ==
    [][/\ (AssigningContent /\ OwnerAuto /\ NonEmpty(filename)) => Invoking("writeFile")
       /\ (AssigningFilename /\ OwnerAuto /\ NonEmpty(filename')) => Invoking("readFile")]_vars

(* ------------------------------ liveness ------------------------------- *)
\* the callbacks of the platform requests of readFile(), writeFile(), list()
\* and remove()
PlatformStep ==
    \/ QuotaGranted
    \/ QuotaDenied
    \/ FsInit
    \/ FsError
    \/ SyncFsReady
    \/ SyncFsNull
    \/ OpenOk
    \/ OpenFail
    \/ DeleteOk
    \/ DeleteFail
    \/ PageMore
    \/ PageEmpty
    \/ PageError
    \/ FileOk
    \/ FileFail
    \/ LoadEnd
    \/ LoadError
    \/ CreateWriterOk
    \/ CreateWriterFail
    \/ TruncateEnd
    \/ TruncateError
    \/ WriteEnd
    \/ WriteError

NextLive ==
    \/ readFile
    \/ writeFile
    \/ list
    \/ remove
    \/ AsyncRestore
    \/ PlatformStep

\* every callback the platform was asked for comes in the end, with success or
\* with failure, and so does the callback handed to async()
PlatformAnswers ==
    /\ WF_vars(AsyncRestore)
    /\ \A p \in Procs : WF_vars(PlatformStep /\ proc'[p] # proc[p])

\* either backend over an empty root, the element with the filename attribute
\* "f" and auto unset
InitLive ==
    /\ backend \in {"persistent", "sync"}
    /\ quota = (IF backend = "persistent" THEN MaxQuota ELSE 0)
    /\ files = [n \in Paths |-> NoFile]
    /\ auto = FALSE
    /\ grantedQuota = 0
    /\ fileSystem = NoFs
    /\ filename = "f"
    /\ content = UndefinedContent
    /\ proc = [p \in Procs |-> Idle]
    /\ calls = 0
    /\ fsSets = 0
    /\ gqSets = 0
    /\ assigns = 0

\* the owner calls readFile(), writeFile(), list() and remove(), and the
\* platform answers every request
SpecLive == InitLive /\ [][NextLive]_vars /\ PlatformAnswers

LiveOps == {"readFile", "writeFile", "list", "remove"}

\* the notification an operation fires when it succeeds
Completion(op) ==
    CASE op = "readFile" -> "file-read"
      [] op = "writeFile" -> "file-write"
      [] op = "list" -> "directory-read"
      [] op = "remove" -> "removed"

\* the invocation has fired its last notification (a readFile() may still
\* await its deferred callback)
Ended(p) == proc[p].pc \in {"done", "async"}

\* C18: when the platform answers every request, every readFile(),
\* writeFile(), list() and remove() ends, and it ends with exactly one
\* notification, its completion or error and never both; as long as an
\* answer of the platform is outstanding, it has fired nothing.
EveryOperationEnds ==
    /\ [](\A p \in Procs :
            proc[p].op \in LiveOps =>
               IF Ended(p)
               THEN /\ proc[p].oks + proc[p].errs = 1
                    /\ proc[p].ev \in {Completion(proc[p].op), "error"}
                    /\ (proc[p].ev = "error") <=> (proc[p].errs = 1)
               ELSE proc[p].oks = 0 /\ proc[p].errs = 0 /\ proc[p].ev = "none")
    /\ \A p \in Procs : (proc[p].op \in LiveOps) ~> Ended(p)

\* a remove() of a named file and a list() have both come to their completion
EveryOperationEndsWitness ==
    \E p, q \in Procs :
        /\ proc[p].op = "remove"
        /\ proc[p].ev = "removed"
        /\ proc[q].op = "list"
        /\ proc[q].ev = "directory-read"
        /\ NonEmpty(filename)

(* --------------------- filename changed underway ----------------------- *)
\* C19 as claimed: a writeFile() truncates and writes one and the same file,
\* also when the owner assigns another filename while it runs
SameFileTruncatedAndWritten ==
    \A p \in Procs :
        ( /\ proc[p].op = "writeFile"
          /\ NonEmpty(proc[p].tpath)
          /\ "written" \in Range(proc[p].trace) ) =>
            proc[p].tpath = proc[p].path

(* ----------------------- content and filename -------------------------- *)
\* C20 as claimed: under auto, when nothing is in flight, every invocation was
\* a readFile() that succeeded and the one started last read the file filename
\* names now, content is what that file holds, however the reads started by
\* successive assignments of filename overlapped
ContentMatchesFilename ==
    ( /\ auto
      /\ calls >= 1
      /\ \A p \in Started : p \in ReadsDone /\ proc[p].pc = "done"
      /\ NonEmpty(filename)
      /\ proc[calls].path = filename ) =>
        content = Str(Utf8Decode(files[filename].data))

=============================================================================
